---- MODULE Spec2Model ----
(***************************************************************************)
(* Model of the recipe chatbot backend: the LangGraph workflow of          *)
(* backend/graphs/recipe_graph.py (RecipeGraph), the three tools it calls  *)
(* (query classifier, web search, cookware checker) and the /api/chat      *)
(* endpoint of backend/main.py that wraps RecipeGraph.run.                 *)
(*                                                                         *)
(* One behaviour of Spec is one request: the endpoint receives a message,  *)
(* run() builds the initial RecipeState, the graph executes one node per   *)
(* step, run() assembles the payload and the endpoint validates it as a    *)
(* ChatResponse.  The external services (the three LLM calls, the SERP     *)
(* API) are inputs: each node action draws the service's answer from a     *)
(* small set of outcomes.                                                  *)
(*                                                                         *)
(* Four more specifications share the definitions of the tools and nodes:  *)
(*   SpecTools       one direct call of classify_query or of               *)
(*                   check_recipe_feasibility on an answer of its LLM;     *)
(*   SpecRequests    several requests calling run() concurrently;          *)
(*   SpecSingletons  threads making first calls of the get_* functions;    *)
(*   SpecStream      one request through /api/chat/stream.                 *)
(***************************************************************************)
EXTENDS Integers, Sequences, FiniteSets, TLC

VARIABLES
    state,            \* the RecipeState threaded through the graph
    pc,               \* next node to execute, or the position of run()/chat_endpoint
    trace,            \* history: the nodes executed so far, in order
    payload,          \* the dict returned by RecipeGraph.run
    http_status,      \* status of the /api/chat reply (0: not replied yet)
    serp_api_key,     \* WebSearchTool.serp_api_key is set
    prompt,           \* the prompt generate_response_node sent to the LLM
    recipe_content,   \* what cookware_check_node passed to the checker
    classifier_llm,   \* history: what the classifier's LLM call did in this request
    serp_calls,       \* history: number of requests sent to the SERP API
    tool_call,        \* one direct call of a tool: the LLM's answer and the value returned
    requests,         \* concurrent requests: each one's message, state and position
    available_cookware,  \* CookwareChecker.available_cookware, the list all requests share
    singletons,       \* the module globals of the get_* functions and their callers
    events            \* the events /api/chat/stream has sent, in order

\* the variables of one request through /api/chat
runVars ==
    <<state, pc, trace, payload, http_status, serp_api_key, prompt, recipe_content,
      classifier_llm, serp_calls>>

\* the variables outside the request
toolVars == << tool_call >>

requestVars == <<requests, available_cookware>>

singletonVars == << singletons >>

streamVars == << events >>

otherVars == <<toolVars, requestVars, singletonVars, streamVars>>

vars == <<runVars, otherVars>>

----------------------------------------------------------------------------
(* Bounds of the model *)

\* longest user message, in phrases
MaxMsgLen == 2

\* most organic results the search API returns in the model
MaxResults == 3

\* number of requests in flight at the same time
NumRequests == 2

\* number of threads that make a first call of a get_* function
NumCallers == 2

----------------------------------------------------------------------------
(* JSON / Python values.  A value is a record [t, v, items]: t is its type, *)
(* v its content (bool: 0/1; num: tenths, so 1.5 is 15; str: its length     *)
(* class, 0 for ""), items the elements of a list.  t = "absent" stands for *)
(* a key a dict does not have.                                              *)

JBool(b) == [t |-> "bool", v |-> IF b THEN 1 ELSE 0, items |-> <<>>]

JNum(n) == [t |-> "num", v |-> n, items |-> <<>>]

JStr(n) == [t |-> "str", v |-> n, items |-> <<>>]

JList(xs) == [t |-> "list", v |-> Len(xs), items |-> xs]

JNull == [t |-> "null", v |-> 0, items |-> <<>>]

JAbsent == [t |-> "absent", v |-> 0, items |-> <<>>]

JTrue == JBool(TRUE)

JFalse == JBool(FALSE)

\* Python truthiness, as `if x` / `a if x else b` evaluate it
Truthy(j) ==
    CASE j.t = "bool" -> j.v = 1
      [] j.t = "num"  -> j.v # 0
      [] j.t = "str"  -> j.v # 0
      [] j.t = "list" -> j.v # 0
      [] OTHER        -> FALSE

\* dict.get(key, default)
Get(j, default) == IF j.t = "absent" THEN default ELSE j

\* isinstance(x, (int, float)): bool is a subclass of int
IsNumber(j) == j.t \in {"num", "bool"}

\* the number 0 <= x <= 1 compares (tenths; True is 1, False is 0)
NumTenths(j) == IF j.t = "bool" THEN 10 * j.v ELSE j.v

----------------------------------------------------------------------------
(* User messages: sequences of words, built from a few phrases.            *)
(* `keyword in user_message` on Python strings is modelled on words: the   *)
(* keyword's words occur contiguously in the message.                      *)

Phrases ==
    { <<"what", "is">>, <<"define">>, <<"Recipe", "for">>, <<"recipe">>,
      <<"how", "to", "make">>, <<"soup">> }

RECURSIVE SeqsUpTo(_, _)
SeqsUpTo(S, n) ==
    IF n = 0 THEN {<<>>}
    ELSE LET shorter == SeqsUpTo(S, n - 1)
         IN  shorter \cup {Append(s, x) : s \in {t \in shorter : Len(t) = n - 1}, x \in S}

RECURSIVE Concat(_)
Concat(ps) == IF ps = <<>> THEN <<>> ELSE Head(ps) \o Concat(Tail(ps))

\* the messages of at most MaxMsgLen phrases
Messages == { Concat(ps) : ps \in SeqsUpTo(Phrases, MaxMsgLen) }

\* str.lower(), word by word
LowerWord(w) == IF w = "Recipe" THEN "recipe" ELSE w

Lower(msg) == [i \in 1..Len(msg) |-> LowerWord(msg[i])]

\* keyword in text
Contains(text, keyword) ==
    \E i \in 1..(Len(text) - Len(keyword) + 1) :
        SubSeq(text, i, i + Len(keyword) - 1) = keyword

\* any(keyword in text for keyword in keywords)
AnyIn(keywords, text) == \E k \in keywords : Contains(text, k)

web_search_keywords ==
    { <<"recipe", "for">>, <<"how", "to", "make">>, <<"how", "do", "i">>,
      <<"recipe">>, <<"instructions">> }

\* the list in decide_tools_node
skip_cookware_keywords ==
    { <<"what", "is">>, <<"define">>, <<"explain">>, <<"tell", "me", "about">>,
      <<"history", "of">>, <<"nutrition">>, <<"calories">>, <<"where", "does">>,
      <<"when", "was">>, <<"who", "invented">> }

\* mutant of skip_cookware_keywords_post_search: the second copy lacks
\* "define"
skip_cookware_keywords_post_search_shorter ==
    { <<"what", "is">>, <<"explain">>, <<"tell", "me", "about">>,
      <<"history", "of">>, <<"nutrition">>, <<"calories">>, <<"where", "does">>,
      <<"when", "was">>, <<"who", "invented">> }

\* the second copy of the list, in should_check_cookware
skip_cookware_keywords_post_search ==
    { <<"what", "is">>, <<"define">>, <<"explain">>, <<"tell", "me", "about">>,
      <<"history", "of">>, <<"nutrition">>, <<"calories">>, <<"where", "does">>,
      <<"when", "was">>, <<"who", "invented">> }

----------------------------------------------------------------------------
(* Query classifier (tools/query_classifier.py) *)

\* a classification as the graph receives it; is_dict is false when the LLM
\* answered valid JSON that is not an object
Classification(is_dict, is_cooking_related, confidence, reasoning) ==
    [is_dict |-> is_dict, is_cooking_related |-> is_cooking_related,
     confidence |-> confidence, reasoning |-> reasoning]

\* the empty dict {}
EmptyClassification == Classification(TRUE, JAbsent, JAbsent, "")

\* what the classifier's LLM call can do: raise, answer text that is not
\* JSON, answer JSON that is not an object, or answer a JSON object
ClassifierLLM ==
    { [kind |-> k, is_cooking_related |-> JAbsent, confidence |-> JAbsent] :
          k \in {"raise", "not_json", "json_other"} }
    \cup
    { [kind |-> "json_object", is_cooking_related |-> c, confidence |-> f] :
          c \in {JTrue, JFalse, JNull, JStr(1), JAbsent},
          f \in {JNum(9), JNum(15), JStr(1), JAbsent} }

\* no call made yet
NoClassifierLLM == [kind |-> "none", is_cooking_related |-> JAbsent, confidence |-> JAbsent]

\* mutant of classify_query_fallback: the fallback says non-cooking
classify_query_fallback_non_cooking(reasoning) ==
    Classification(TRUE, JFalse, JNum(5), reasoning)

classify_query_fallback(reasoning) ==
    Classification(TRUE, JTrue, JNum(5), reasoning)

classify_query(llm) ==
    CASE llm.kind = "raise" ->
            classify_query_fallback("Classification error")
      [] llm.kind = "not_json" ->
            classify_query_fallback("Failed to parse classification, defaulting to cooking-related")
      [] llm.kind = "json_other" ->
            Classification(FALSE, JAbsent, JAbsent, "")
      [] OTHER ->
            Classification(TRUE, llm.is_cooking_related, llm.confidence, "llm")

----------------------------------------------------------------------------
(* Web search (tools/web_search.py).  A result keeps the two fields the     *)
(* graph reads, title and snippet.                                          *)

\* organic results as the SERP API can return them: the title is a string
\* or null
RawResults == { [title |-> JStr(1), snippet |-> JStr(1)],
                [title |-> JNull, snippet |-> JStr(1)] }

\* the API call: an HTTP error, another exception, or organic results
SerpOutcomes ==
    { [kind |-> k, organic_results |-> <<>>] : k \in {"http_error", "error"} }
    \cup
    { [kind |-> "ok", organic_results |-> rs] : rs \in SeqsUpTo(RawResults, MaxResults) }

SearchResults(success, error, results) ==
    [success |-> success, error |-> error, results |-> results]

\* the empty dict {}
EmptySearchResults == SearchResults(JAbsent, "", <<>>)

format_result(result) ==
    [title |-> Get(result.title, JStr(0)), snippet |-> Get(result.snippet, JStr(0))]

\* lines 29-34 return before the client is opened: the number of requests
\* search_recipes sends to the SERP API
api_requests(has_key) == IF has_key THEN 1 ELSE 0

search_recipes(has_key, serp) ==
    IF ~has_key
    THEN SearchResults(JFalse, "SERP API key not configured", <<>>)
    ELSE CASE serp.kind = "http_error" -> SearchResults(JFalse, "HTTP error", <<>>)
           [] serp.kind = "error"      -> SearchResults(JFalse, "Search error", <<>>)
           [] OTHER ->
                SearchResults(JTrue, "",
                    [i \in 1..Len(serp.organic_results) |->
                        format_result(serp.organic_results[i])])

----------------------------------------------------------------------------
(* Cookware checker (tools/cookware_checker.py) *)

AVAILABLE_COOKWARE ==
    <<"Spatula", "Frying Pan", "Little Pot", "Stovetop", "Whisk", "Knife", "Ladle", "Spoon">>

\* a verdict dict; a field the dict lacks is JAbsent
Verdict(can_make, required_items, available_items, missing_items, confidence, suggestions, reasoning) ==
    [can_make |-> can_make, required_items |-> required_items,
     available_items |-> available_items, missing_items |-> missing_items,
     confidence |-> confidence, suggestions |-> suggestions, reasoning |-> reasoning]

\* the empty dict {}
EmptyVerdict == Verdict(JAbsent, JAbsent, JAbsent, JAbsent, JAbsent, JAbsent, JAbsent)

required_fields ==
    {"can_make", "required_items", "available_items", "missing_items",
     "confidence", "suggestions", "reasoning"}

\* bool(d) of a dict: it has a key
NonEmptyDict(d) == \E f \in required_fields : d[f].t # "absent"

\* JSON objects the checker's LLM answers in the model: well-formed verdicts,
\* verdicts with an out-of-range or non-numeric confidence, a verdict with
\* wrong field types, an object lacking fields and the empty object
WellFormedVerdict ==
    Verdict(JTrue, JList(<<"Whisk">>), JList(<<"Whisk">>), JList(<<>>), JNum(8),
            JStr(1), JStr(1))

CheckerObjects ==
    { WellFormedVerdict,
      Verdict(JFalse, JList(<<"Oven">>), JList(<<>>), JList(<<"Oven">>), JNum(9),
              JStr(1), JStr(1)),
      [WellFormedVerdict EXCEPT !.confidence = JNum(15)],
      [WellFormedVerdict EXCEPT !.confidence = JStr(1)],
      Verdict(JStr(1), JNull, JStr(1), JNum(2), JNum(10), JStr(1), JStr(1)),
      [EmptyVerdict EXCEPT !.can_make = JFalse, !.confidence = JNum(15)],
      EmptyVerdict }

\* what the checker's LLM call can do.  direct is what json.loads makes of
\* the whole text, brace what it makes of the text the pattern \{.*\} finds;
\* when the whole text is an object the pattern finds that same object
CheckerText(direct, brace, object) ==
    [kind |-> "text", direct |-> direct, brace |-> brace, object |-> object]

CheckerLLM ==
    { [kind |-> "raise", direct |-> "not_json", brace |-> "none", object |-> EmptyVerdict],
      CheckerText("scalar", "none", EmptyVerdict),
      CheckerText("array", "none", EmptyVerdict),
      CheckerText("not_json", "none", EmptyVerdict),
      CheckerText("not_json", "not_json", EmptyVerdict) }
    \cup { CheckerText("object", "object", o) : o \in CheckerObjects }
    \cup { CheckerText("not_json", "object", o) : o \in CheckerObjects }

\* no call made yet
NoCheckerLLM == [kind |-> "none", direct |-> "not_json", brace |-> "none", object |-> EmptyVerdict]

\* JSON objects for the direct calls of check_recipe_feasibility: every
\* combination of a present, absent, well-typed and ill-typed field
VerdictObjects ==
    { Verdict(can_make, required_items, available_items, missing_items, confidence,
              JStr(1), JStr(1)) :
        can_make \in {JTrue, JFalse, JStr(1), JNull, JAbsent},
        required_items \in {JList(<<"Oven">>), JStr(1)},
        available_items \in {JList(<<"Whisk">>), JNull},
        missing_items \in {JList(<<"Oven">>), JList(<<>>), JNum(2), JAbsent},
        confidence \in {JNum(0), JNum(8), JNum(10), JNum(15), JNum(-1), JStr(1),
                        JTrue, JNull, JAbsent} }

CheckerAnswers ==
    { [kind |-> "raise", direct |-> "not_json", brace |-> "none", object |-> EmptyVerdict],
      CheckerText("scalar", "none", EmptyVerdict),
      CheckerText("array", "none", EmptyVerdict),
      CheckerText("not_json", "none", EmptyVerdict),
      CheckerText("not_json", "not_json", EmptyVerdict) }
    \cup { CheckerText("object", "object", o) : o \in VerdictObjects }
    \cup { CheckerText("not_json", "object", o) : o \in VerdictObjects }

check_fallback(confidence) ==
    Verdict(JTrue, JList(<<>>), JList(AVAILABLE_COOKWARE), JList(<<>>), JNum(confidence),
            JStr(1), JStr(1))

\* lines 84-90: the coercions of a parsed object that has every field
coerce_lists(result) ==
    [result EXCEPT
        !.required_items  = IF @.t # "list" THEN JList(<<>>) ELSE @,
        !.available_items = IF @.t # "list" THEN JList(<<>>) ELSE @,
        !.missing_items   = IF @.t # "list" THEN JList(<<>>) ELSE @]

coerce_confidence(result) ==
    IF ~IsNumber(result.confidence)
       \/ ~(0 <= NumTenths(result.confidence) /\ NumTenths(result.confidence) <= 10)
    THEN [result EXCEPT !.confidence = JNum(5)]
    ELSE result

coerce_can_make(result) ==
    IF result.can_make.t # "bool" THEN [result EXCEPT !.can_make = JTrue] ELSE result

\* the except json.JSONDecodeError branch: parse what the pattern finds and
\* return it as parsed, else the fallback verdict
extract_json(llm) ==
    IF llm.brace = "object" THEN llm.object ELSE check_fallback(5)

check_recipe_feasibility(llm) ==
    CASE llm.kind = "raise" -> check_fallback(3)
      [] llm.direct = "scalar" -> check_fallback(3)
      [] llm.direct = "object" /\ (\A f \in required_fields : llm.object[f].t # "absent") ->
            coerce_can_make(coerce_confidence(coerce_lists(llm.object)))
      [] OTHER -> extract_json(llm)

\* ', '.join(missing_items) raises on a truthy value that is no iterable of
\* strings
get_cookware_summary_raises(cookware_result) ==
    LET missing_items == Get(cookware_result.missing_items, JList(<<>>))
    IN  Truthy(missing_items) /\ missing_items.t \in {"num", "bool"}

\* the responder's LLM call: it raises, or returns text (possibly empty)
ResponderLLM ==
    { [raises |-> TRUE, content |-> ""],
      [raises |-> FALSE, content |-> ""],
      [raises |-> FALSE, content |-> "Here is how to cook it."] }

----------------------------------------------------------------------------
(* The workflow (graphs/recipe_graph.py) *)

\* the nodes _build_graph adds
Nodes ==
    {"classify_query", "handle_non_cooking", "decide_tools", "web_search",
     "cookware_check", "generate_response"}

REDIRECT_MESSAGE == "I'm a cooking and recipe assistant! What would you like to cook today?"

GENERATE_APOLOGY == "I apologize, but I encountered an error while generating your response."

RUN_APOLOGY == "I apologize, but I encountered an error processing your request. Please try again!"

\* debug_info: keys is the set of keys the dict has
DebugInfo(keys, classification, needs_web_search, needs_cookware_check) ==
    [keys |-> keys, classification |-> classification,
     tool_decisions |-> [needs_web_search |-> needs_web_search,
                         needs_cookware_check |-> needs_cookware_check]]

EmptyDebugInfo == DebugInfo({}, EmptyClassification, FALSE, FALSE)

\* run(), lines 302-311
initial_state(user_message) ==
    [user_message |-> user_message,
     is_cooking_related |-> JFalse,
     classification_result |-> EmptyClassification,
     web_search_results |-> EmptySearchResults,
     cookware_check_result |-> EmptyVerdict,
     final_response |-> "",
     tools_used |-> <<>>,
     debug_info |-> EmptyDebugInfo]

\* a node's outcome: the state it leaves, and whether it raised
Returned(st) == [raised |-> FALSE, state |-> st]

Raised(st) == [raised |-> TRUE, state |-> st]

\* classification.get(...) raises AttributeError on a value that is no dict,
\* after line 100 stored it
\* mutant of classify_query_node: the classification is not put into
\* debug_info
classify_query_node_no_debug(st, classification) ==
    IF ~classification.is_dict
    THEN Raised([st EXCEPT !.classification_result = classification])
    ELSE Returned([st EXCEPT
            !.classification_result = classification,
            !.is_cooking_related = Get(classification.is_cooking_related, JFalse)])

classify_query_node(st, classification) ==
    IF ~classification.is_dict
    THEN Raised([st EXCEPT !.classification_result = classification])
    ELSE Returned([st EXCEPT
            !.classification_result = classification,
            !.is_cooking_related = Get(classification.is_cooking_related, JFalse),
            !.debug_info = DebugInfo({"classification"}, classification, FALSE, FALSE)])

handle_non_cooking_node(st) ==
    [st EXCEPT !.final_response = REDIRECT_MESSAGE, !.tools_used = <<>>]

\* mutant of decide_tools_node: the default bias forces the search whenever
\* no search keyword matched
decide_tools_node_always_search(st) ==
    LET user_message == Lower(st.user_message)
        needs_cookware_check == ~AnyIn(skip_cookware_keywords, user_message)
    IN  [st EXCEPT !.debug_info =
            DebugInfo(@.keys \cup {"tool_decisions"}, @.classification,
                      TRUE, needs_cookware_check)]

\* mutant of decide_tools_node: without the default bias of lines 139-144
decide_tools_node_no_default_bias(st) ==
    LET user_message == Lower(st.user_message)
        found_search == AnyIn(web_search_keywords, user_message)
        needs_cookware_check == ~AnyIn(skip_cookware_keywords, user_message)
    IN  [st EXCEPT !.debug_info =
            DebugInfo(@.keys \cup {"tool_decisions"}, @.classification,
                      found_search, needs_cookware_check)]

decide_tools_node(st) ==
    LET user_message == Lower(st.user_message)
        found_search == AnyIn(web_search_keywords, user_message)
        needs_cookware_check == ~AnyIn(skip_cookware_keywords, user_message)
        needs_web_search == found_search \/ (~found_search /\ needs_cookware_check)
    IN  [st EXCEPT !.debug_info =
            DebugInfo(@.keys \cup {"tool_decisions"}, @.classification,
                      needs_web_search, needs_cookware_check)]

\* mutant of web_search_node: a failed search is not recorded in tools_used
web_search_node_success_only(st, search_results) ==
    [st EXCEPT !.web_search_results = search_results,
               !.tools_used = IF Truthy(search_results.success)
                              THEN Append(@, "web_search") ELSE @]

web_search_node(st, search_results) ==
    [st EXCEPT !.web_search_results = search_results,
               !.tools_used = Append(@, "web_search")]

\* mutant of Top2: every result is used
Top2_all(results) == results

\* results[:2]
Top2(results) == SubSeq(results, 1, IF Len(results) < 2 THEN Len(results) ELSE 2)

\* lines 171-179: the text handed to the checker; title + " " + snippet
\* raises TypeError when either is no string
recipe_content_of(st) ==
    LET results == st.web_search_results.results
        used == Top2(results)
    IN  IF Truthy(Get(st.web_search_results.success, JNull)) /\ Len(results) > 0
        THEN [source |-> "search_results", parts |-> used,
              raised |-> \E i \in 1..Len(used) :
                            used[i].title.t # "str" \/ used[i].snippet.t # "str"]
        ELSE [source |-> "user_message", parts |-> <<>>, raised |-> FALSE]

NoRecipeContent == [source |-> "none", parts |-> <<>>, raised |-> FALSE]

\* mutant of cookware_check_node: the tool name is put in front
cookware_check_node_prepends(st, llm) ==
    IF recipe_content_of(st).raised
    THEN Raised(st)
    ELSE Returned([st EXCEPT
            !.cookware_check_result = check_recipe_feasibility(llm),
            !.tools_used = <<"cookware_check">> \o @])

cookware_check_node(st, llm) ==
    IF recipe_content_of(st).raised
    THEN Raised(st)
    ELSE Returned([st EXCEPT
            !.cookware_check_result = check_recipe_feasibility(llm),
            !.tools_used = Append(@, "cookware_check")])

\* lines 194-210: the context blocks of the prompt
build_context(st) ==
    (IF Truthy(Get(st.web_search_results.success, JNull)) THEN <<"web_search_results">> ELSE <<>>)
    \o (IF NonEmptyDict(st.cookware_check_result) THEN <<"cookware_analysis">> ELSE <<>>)

\* whether the try block reaches the LLM call
prompt_built(st) ==
    ~(NonEmptyDict(st.cookware_check_result)
      /\ get_cookware_summary_raises(st.cookware_check_result))

NoPrompt == [sent |-> FALSE, context_parts |-> <<>>]

prompt_of(st) ==
    IF prompt_built(st) THEN [sent |-> TRUE, context_parts |-> build_context(st)] ELSE NoPrompt

\* mutant of generate_response_node: the except branch also drops the
\* tools recorded so far
generate_response_node_drops_tools(st, llm) ==
    IF prompt_built(st) /\ ~llm.raises
    THEN [st EXCEPT !.final_response = llm.content]
    ELSE [st EXCEPT !.final_response = GENERATE_APOLOGY, !.tools_used = <<>>]

generate_response_node(st, llm) ==
    IF prompt_built(st) /\ ~llm.raises
    THEN [st EXCEPT !.final_response = llm.content]
    ELSE [st EXCEPT !.final_response = GENERATE_APOLOGY]

(* Conditional edge functions *)

\* mutant of should_proceed_with_cooking: the two labels are swapped
should_proceed_with_cooking_inverted(st) ==
    IF Truthy(st.is_cooking_related) THEN "non_cooking" ELSE "cooking"

should_proceed_with_cooking(st) ==
    IF Truthy(st.is_cooking_related) THEN "cooking" ELSE "non_cooking"

\* tool_decisions.get(key, False) of debug_info.get("tool_decisions", {})
tool_decision(st, key) ==
    "tool_decisions" \in st.debug_info.keys /\ st.debug_info.tool_decisions[key]

\* mutant of which_tools_to_use: the last branch searches
which_tools_to_use_default_search(st) ==
    LET needs_web == tool_decision(st, "needs_web_search")
        needs_cookware == tool_decision(st, "needs_cookware_check")
    IN  CASE needs_web /\ needs_cookware  -> "both"
          [] needs_web /\ ~needs_cookware -> "web_search"
          [] ~needs_web /\ needs_cookware -> "cookware_only"
          [] OTHER                        -> "web_search"

which_tools_to_use(st) ==
    LET needs_web == tool_decision(st, "needs_web_search")
        needs_cookware == tool_decision(st, "needs_cookware_check")
    IN  CASE needs_web /\ needs_cookware  -> "both"
          [] needs_web /\ ~needs_cookware -> "web_search"
          [] ~needs_web /\ needs_cookware -> "cookware_only"
          [] OTHER                        -> "neither"

should_check_cookware(st) ==
    IF tool_decision(st, "needs_cookware_check") THEN "yes"
    ELSE IF AnyIn(skip_cookware_keywords_post_search, Lower(st.user_message)) THEN "no"
    ELSE "yes"

\* mutant of build_graph: the targets of "yes" and "no" are swapped
build_graph_yes_no_swapped(node, label) ==
    CASE node = "classify_query" /\ label = "cooking"     -> "decide_tools"
      [] node = "classify_query" /\ label = "non_cooking" -> "handle_non_cooking"
      [] node = "decide_tools" /\ label = "web_search"    -> "web_search"
      [] node = "decide_tools" /\ label = "cookware_only" -> "cookware_check"
      [] node = "decide_tools" /\ label = "both"          -> "web_search"
      [] node = "decide_tools" /\ label = "neither"       -> "generate_response"
      [] node = "web_search" /\ label = "yes"             -> "generate_response"
      [] node = "web_search" /\ label = "no"              -> "cookware_check"
      [] node = "handle_non_cooking" /\ label = "edge"    -> "END"
      [] node = "cookware_check" /\ label = "edge"        -> "generate_response"
      [] node = "generate_response" /\ label = "edge"     -> "END"

\* mutant of build_graph: cookware_check leads to END
build_graph_cookware_to_end(node, label) ==
    CASE node = "classify_query" /\ label = "cooking"     -> "decide_tools"
      [] node = "classify_query" /\ label = "non_cooking" -> "handle_non_cooking"
      [] node = "decide_tools" /\ label = "web_search"    -> "web_search"
      [] node = "decide_tools" /\ label = "cookware_only" -> "cookware_check"
      [] node = "decide_tools" /\ label = "both"          -> "web_search"
      [] node = "decide_tools" /\ label = "neither"       -> "generate_response"
      [] node = "web_search" /\ label = "yes"             -> "cookware_check"
      [] node = "web_search" /\ label = "no"              -> "generate_response"
      [] node = "handle_non_cooking" /\ label = "edge"    -> "END"
      [] node = "cookware_check" /\ label = "edge"        -> "END"
      [] node = "generate_response" /\ label = "edge"     -> "END"

\* mutant of build_graph: generate_response leads back to decide_tools
build_graph_cycle(node, label) ==
    CASE node = "classify_query" /\ label = "cooking"     -> "decide_tools"
      [] node = "classify_query" /\ label = "non_cooking" -> "handle_non_cooking"
      [] node = "decide_tools" /\ label = "web_search"    -> "web_search"
      [] node = "decide_tools" /\ label = "cookware_only" -> "cookware_check"
      [] node = "decide_tools" /\ label = "both"          -> "web_search"
      [] node = "decide_tools" /\ label = "neither"       -> "generate_response"
      [] node = "web_search" /\ label = "yes"             -> "cookware_check"
      [] node = "web_search" /\ label = "no"              -> "generate_response"
      [] node = "handle_non_cooking" /\ label = "edge"    -> "END"
      [] node = "cookware_check" /\ label = "edge"        -> "generate_response"
      [] node = "generate_response" /\ label = "edge"     -> "decide_tools"

\* _build_graph: the node an edge leads to
build_graph(node, label) ==
    CASE node = "classify_query" /\ label = "cooking"     -> "decide_tools"
      [] node = "classify_query" /\ label = "non_cooking" -> "handle_non_cooking"
      [] node = "decide_tools" /\ label = "web_search"    -> "web_search"
      [] node = "decide_tools" /\ label = "cookware_only" -> "cookware_check"
      [] node = "decide_tools" /\ label = "both"          -> "web_search"
      [] node = "decide_tools" /\ label = "neither"       -> "generate_response"
      [] node = "web_search" /\ label = "yes"             -> "cookware_check"
      [] node = "web_search" /\ label = "no"              -> "generate_response"
      [] node = "handle_non_cooking" /\ label = "edge"    -> "END"
      [] node = "cookware_check" /\ label = "edge"        -> "generate_response"
      [] node = "generate_response" /\ label = "edge"     -> "END"

(* run() and the endpoint *)

Payload(response, is_cooking_related, tools_used, cookware_check, debug_info) ==
    [response |-> response, is_cooking_related |-> is_cooking_related,
     tools_used |-> tools_used, cookware_check |-> cookware_check,
     debug_info |-> debug_info]

\* cookware_check is None or a dict
None == [is_none |-> TRUE, dict |-> EmptyVerdict]

Dict(d) == [is_none |-> FALSE, dict |-> d]

NoPayload == Payload("", JFalse, <<>>, None, EmptyDebugInfo)

\* lines 318-324
run_result(final_state) ==
    Payload(final_state.final_response, final_state.is_cooking_related,
            final_state.tools_used, Dict(final_state.cookware_check_result),
            final_state.debug_info)

\* mutant of run_fallback: the tools recorded before the failure are kept
run_fallback_keeps_tools ==
    Payload(RUN_APOLOGY, JFalse, state.tools_used, None,
            DebugInfo({"error"}, EmptyClassification, FALSE, FALSE))

\* lines 326-334: debug_info is {"error": str(e)}
run_fallback ==
    Payload(RUN_APOLOGY, JFalse, <<>>, None,
            DebugInfo({"error"}, EmptyClassification, FALSE, FALSE))

\* ChatResponse(is_cooking_related: bool): pydantic accepts a bool or the
\* numbers 0 and 1, and rejects null and a string that spells no boolean
ChatResponse_valid(result) ==
    \/ result.is_cooking_related.t = "bool"
    \/ result.is_cooking_related.t = "num" /\ result.is_cooking_related.v \in {0, 10}

\* chat_endpoint: the status of the reply
chat_endpoint(result) == IF ChatResponse_valid(result) THEN 200 ELSE 500

----------------------------------------------------------------------------
(* Concurrent requests.  Every request calls run() on the one RecipeGraph   *)
(* instance; the requests take their node steps in any order.               *)

Requests == 1..NumRequests

RequestMessages == { <<"soup">>, <<"what", "is", "soup">> }

\* the collaborators' answers to a request
NoSerpOutcome == [kind |-> "none", organic_results |-> <<>>]

NoResponderLLM == [raises |-> FALSE, content |-> "none"]

NoInputs ==
    [classifier |-> NoClassifierLLM, serp |-> NoSerpOutcome,
     checker |-> NoCheckerLLM, responder |-> NoResponderLLM]

StubClassifier ==
    { [kind |-> "json_object", is_cooking_related |-> c, confidence |-> JNum(9)] :
          c \in {JTrue, JFalse} }

StubSerp ==
    { [kind |-> "error", organic_results |-> <<>>],
      [kind |-> "ok", organic_results |-> << [title |-> JStr(1), snippet |-> JStr(1)] >>],
      [kind |-> "ok", organic_results |-> << [title |-> JNull, snippet |-> JStr(1)] >>] }

StubChecker ==
    { [kind |-> "raise", direct |-> "not_json", brace |-> "none", object |-> EmptyVerdict],
      CheckerText("object", "object", WellFormedVerdict) }

StubResponder ==
    { [raises |-> TRUE, content |-> ""],
      [raises |-> FALSE, content |-> "Here is how to cook it."] }

\* the inputs after the node's collaborator has answered
draw(node, in) ==
    CASE node = "classify_query"    -> { [in EXCEPT !.classifier = x] : x \in StubClassifier }
      [] node = "web_search"        -> { [in EXCEPT !.serp = x] : x \in StubSerp }
      [] node = "cookware_check"    -> { [in EXCEPT !.checker = x] : x \in StubChecker }
      [] node = "generate_response" -> { [in EXCEPT !.responder = x] : x \in StubResponder }
      [] OTHER                      -> { in }

\* one node of the compiled graph applied to a state
node_apply(node, st, in, has_key) ==
    CASE node = "classify_query" ->
            classify_query_node(st, classify_query(in.classifier))
      [] node = "handle_non_cooking" -> Returned(handle_non_cooking_node(st))
      [] node = "decide_tools" -> Returned(decide_tools_node(st))
      [] node = "web_search" ->
            Returned(web_search_node(st, search_recipes(has_key, in.serp)))
      [] node = "cookware_check" -> cookware_check_node(st, in.checker)
      [] node = "generate_response" ->
            Returned(generate_response_node(st, in.responder))

\* the label the node's outgoing edge function returns
edge_label(node, st) ==
    CASE node = "classify_query" -> should_proceed_with_cooking(st)
      [] node = "decide_tools"   -> which_tools_to_use(st)
      [] node = "web_search"     -> should_check_cookware(st)
      [] OTHER                   -> "edge"

\* self.graph.invoke(initial_state): the nodes run one after the other
RECURSIVE graph_invoke(_, _, _, _)
graph_invoke(st, node, in, has_key) ==
    IF node = "END" THEN Returned(st)
    ELSE LET res == node_apply(node, st, in, has_key)
         IN  IF res.raised THEN res
             ELSE graph_invoke(res.state, build_graph(node, edge_label(node, res.state)),
                               in, has_key)

\* run() called on its own
run(user_message, in, has_key) ==
    LET res == graph_invoke(initial_state(user_message), "classify_query", in, has_key)
    IN  IF res.raised THEN run_fallback ELSE run_result(res.state)

\* a request that has not called run() yet
NewRequest(user_message) ==
    [user_message |-> user_message, state |-> initial_state(<<>>), pc |-> "start",
     trace |-> <<>>, inputs |-> NoInputs, payload |-> NoPayload]

\* mutant of start_request: tools_used starts as the list another request
\* has filled
start_request_keeps_tools(reqs, r) ==
    LET lists == { reqs[x].state.tools_used : x \in Requests \ {r} }
        longest == CHOOSE t \in lists : \A u \in lists : Len(u) <= Len(t)
    IN  [reqs EXCEPT ![r].state =
                        [initial_state(reqs[r].user_message) EXCEPT !.tools_used = longest],
                     ![r].pc = "classify_query"]

\* run(), lines 302-311: the request gets a state of its own
start_request(reqs, r) ==
    [reqs EXCEPT ![r].state = initial_state(reqs[r].user_message),
                 ![r].pc = "classify_query"]

\* mutant of step_request: the state is kept on the shared instance, so
\* every request sees the state the last node wrote
step_request_shared_state(reqs, r, in, has_key) ==
    LET q == reqs[r]
        res == node_apply(q.pc, q.state, in, has_key)
        next == IF res.raised THEN "raised"
                ELSE build_graph(q.pc, edge_label(q.pc, res.state))
    IN  [x \in Requests |->
            IF x = r
            THEN [q EXCEPT !.state = res.state, !.inputs = in,
                           !.trace = Append(@, q.pc), !.pc = next]
            ELSE [reqs[x] EXCEPT !.state = res.state]]

\* the request's next node runs on the request's own state
step_request(reqs, r, in, has_key) ==
    LET q == reqs[r]
        res == node_apply(q.pc, q.state, in, has_key)
        next == IF res.raised THEN "raised"
                ELSE build_graph(q.pc, edge_label(q.pc, res.state))
    IN  [reqs EXCEPT ![r] = [q EXCEPT !.state = res.state, !.inputs = in,
                                      !.trace = Append(@, q.pc), !.pc = next]]

\* no concurrent request exists
IdleRequests ==
    /\ requests = [r \in Requests |-> NewRequest(<<>>)]
    /\ available_cookware = AVAILABLE_COOKWARE

----------------------------------------------------------------------------
(* The lazy singletons: get_recipe_graph, get_query_classifier,             *)
(* get_web_search_tool and get_cookware_checker.  Each keeps its instance   *)
(* in a module global that starts as None; an instance is named by the      *)
(* order of its construction (0 stands for None).                           *)

Getters ==
    {"get_recipe_graph", "get_query_classifier", "get_web_search_tool",
     "get_cookware_checker"}

Callers == 1..NumCallers

\* a thread that has not called a getter yet
NewCaller == [pc |-> "idle", getter |-> "none", instance |-> 0, got |-> 0]

NoSingletons ==
    [global |-> [g \in Getters |-> 0],
     constructed |-> [g \in Getters |-> 0],
     callers |-> [c \in Callers |-> NewCaller]]

\* `if _x is None`: the branch the caller takes
test_global(value) == IF value = 0 THEN "construct" ELSE "return"

IdleSingletons == singletons = NoSingletons

----------------------------------------------------------------------------
(* The streaming endpoint /api/chat/stream (main.py, generate_stream).  An  *)
(* event has a type, and as data the status or tool it names; a content     *)
(* event carries the number of words of its chunk.                          *)

Event(type, data, words) == [type |-> type, data |-> data, words |-> words]

StreamMessages == { <<"soup">>, <<"what", "is", "soup">>, <<"define", "recipe">> }

\* len(response_text.split()) of the texts a payload can carry
word_count(text) ==
    CASE text = REDIRECT_MESSAGE -> 31
      [] text = GENERATE_APOLOGY -> 18
      [] text = RUN_APOLOGY      -> 13
      [] text = ""               -> 0
      [] OTHER                   -> 6

\* a chunk is sent every 6 words and at the last word
chunks(n) ==
    [i \in 1..((n + 5) \div 6) |->
        Event("content", "", IF 6 * i <= n THEN 6 ELSE n - 6 * (i - 1))]

\* the events sent before run() is called
opening_events ==
    << Event("status", "Processing your request...", 0),
       Event("status", "Analyzing your cooking question...", 0) >>

\* mutant of stream_events: the tool events follow the content events
stream_events_tools_last(result) ==
    (IF result.response # ""
     THEN <<Event("status", "Generating response...", 0)>>
          \o chunks(word_count(result.response))
     ELSE <<>>)
    \o [i \in 1..Len(result.tools_used) |-> Event("tool", result.tools_used[i], 0)]
    \o <<Event("complete", "", 0)>>

\* lines 98-142: the events sent once run() has returned result
stream_events(result) ==
    [i \in 1..Len(result.tools_used) |-> Event("tool", result.tools_used[i], 0)]
    \o (IF ~result.cookware_check.is_none /\ NonEmptyDict(result.cookware_check.dict)
        THEN <<Event("status", "Checking available cookware...", 0)>> ELSE <<>>)
    \o (IF result.response # ""
        THEN <<Event("status", "Generating response...", 0)>>
             \o chunks(word_count(result.response))
        ELSE <<>>)
    \o <<Event("complete", "", 0)>>

IdleStream == events = <<>>

----------------------------------------------------------------------------
(* Actions *)

\* no tool has been called directly
NoToolCall ==
    [tool |-> "none",
     classifier_llm |-> NoClassifierLLM, classification |-> EmptyClassification,
     checker_llm |-> NoCheckerLLM, verdict |-> EmptyVerdict]

IdleTools == tool_call = NoToolCall

\* no request is in progress
IdleRun ==
    /\ state = initial_state(<<>>)
    /\ pc = "idle"
    /\ trace = <<>>
    /\ payload = NoPayload
    /\ http_status = 0
    /\ prompt = NoPrompt
    /\ recipe_content = NoRecipeContent
    /\ classifier_llm = NoClassifierLLM
    /\ serp_calls = 0

\* the variables outside the request keep their initial values
IdleOthers ==
    /\ IdleTools
    /\ IdleRequests
    /\ IdleSingletons
    /\ IdleStream

Init ==
    /\ \E m \in Messages : state = initial_state(m)
    /\ pc = "classify_query"
    /\ trace = <<>>
    /\ payload = NoPayload
    /\ http_status = 0
    /\ serp_api_key \in BOOLEAN
    /\ prompt = NoPrompt
    /\ recipe_content = NoRecipeContent
    /\ classifier_llm = NoClassifierLLM
    /\ serp_calls = 0
    /\ IdleOthers

ClassifyQuery ==
    /\ pc = "classify_query"
    /\ \E llm \in ClassifierLLM :
        LET r == classify_query_node(state, classify_query(llm))
        IN  /\ state' = r.state
            /\ pc' = IF r.raised THEN "raised"
                     ELSE build_graph("classify_query", should_proceed_with_cooking(r.state))
            /\ classifier_llm' = llm
    /\ trace' = Append(trace, "classify_query")
    /\ UNCHANGED <<payload, http_status, serp_api_key, prompt, recipe_content, serp_calls, otherVars>>

HandleNonCooking ==
    /\ pc = "handle_non_cooking"
    /\ state' = handle_non_cooking_node(state)
    /\ pc' = build_graph("handle_non_cooking", "edge")
    /\ trace' = Append(trace, "handle_non_cooking")
    /\ UNCHANGED <<payload, http_status, serp_api_key, prompt, recipe_content, classifier_llm, serp_calls, otherVars>>

DecideTools ==
    /\ pc = "decide_tools"
    /\ state' = decide_tools_node(state)
    /\ pc' = build_graph("decide_tools", which_tools_to_use(state'))
    /\ trace' = Append(trace, "decide_tools")
    /\ UNCHANGED <<payload, http_status, serp_api_key, prompt, recipe_content, classifier_llm, serp_calls, otherVars>>

WebSearch ==
    /\ pc = "web_search"
    /\ \E serp \in SerpOutcomes :
        state' = web_search_node(state, search_recipes(serp_api_key, serp))
    /\ pc' = build_graph("web_search", should_check_cookware(state'))
    /\ serp_calls' = serp_calls + api_requests(serp_api_key)
    /\ trace' = Append(trace, "web_search")
    /\ UNCHANGED <<payload, http_status, serp_api_key, prompt, recipe_content, classifier_llm, otherVars>>

CookwareCheck ==
    /\ pc = "cookware_check"
    /\ \E llm \in CheckerLLM :
        LET r == cookware_check_node(state, llm)
        IN  /\ state' = r.state
            /\ pc' = IF r.raised THEN "raised" ELSE build_graph("cookware_check", "edge")
    /\ recipe_content' = recipe_content_of(state)
    /\ trace' = Append(trace, "cookware_check")
    /\ UNCHANGED <<payload, http_status, serp_api_key, prompt, classifier_llm, serp_calls, otherVars>>

GenerateResponse ==
    /\ pc = "generate_response"
    /\ \E llm \in ResponderLLM : state' = generate_response_node(state, llm)
    /\ prompt' = prompt_of(state)
    /\ pc' = build_graph("generate_response", "edge")
    /\ trace' = Append(trace, "generate_response")
    /\ UNCHANGED <<payload, http_status, serp_api_key, recipe_content, classifier_llm, serp_calls, otherVars>>

\* graph.invoke returned: run() builds the payload from the final state
RunReturn ==
    /\ pc = "END"
    /\ payload' = run_result(state)
    /\ pc' = "returned"
    /\ UNCHANGED <<state, trace, http_status, serp_api_key, prompt, recipe_content, classifier_llm, serp_calls, otherVars>>

\* graph.invoke raised: run() returns the fallback payload
RunExcept ==
    /\ pc = "raised"
    /\ payload' = run_fallback
    /\ pc' = "returned"
    /\ UNCHANGED <<state, trace, http_status, serp_api_key, prompt, recipe_content, classifier_llm, serp_calls, otherVars>>

\* chat_endpoint builds the ChatResponse and replies
ChatEndpoint ==
    /\ pc = "returned"
    /\ http_status' = chat_endpoint(payload)
    /\ pc' = "replied"
    /\ UNCHANGED <<state, trace, payload, serp_api_key, prompt, recipe_content, classifier_llm, serp_calls, otherVars>>

Next ==
    \/ ClassifyQuery
    \/ HandleNonCooking
    \/ DecideTools
    \/ WebSearch
    \/ CookwareCheck
    \/ GenerateResponse
    \/ RunReturn
    \/ RunExcept
    \/ ChatEndpoint

Spec == Init /\ [][Next]_vars

\* one message for each way the routing reads a message: no phrase of
\* either list, an exclusion phrase only, a search trigger only, both
FairMessages ==
    { <<"soup">>, <<"what", "is", "soup">>, <<"Recipe", "for", "soup">>,
      <<"define", "recipe">> }

InitFair ==
    /\ \E m \in FairMessages : state = initial_state(m)
    /\ pc = "classify_query"
    /\ trace = <<>>
    /\ payload = NoPayload
    /\ http_status = 0
    /\ serp_api_key \in BOOLEAN
    /\ prompt = NoPrompt
    /\ recipe_content = NoRecipeContent
    /\ classifier_llm = NoClassifierLLM
    /\ serp_calls = 0
    /\ IdleOthers

\* graph.invoke and run() are synchronous: when the call a step makes has
\* returned or raised, the engine goes on to the next step, and run() and
\* the endpoint go on to their return
FairSpec == InitFair /\ [][Next]_vars /\ WF_vars(Next)

----------------------------------------------------------------------------
(* Direct calls of the two tools that parse an LLM answer:                  *)
(* QueryClassifier.classify_query and CookwareChecker.check_recipe_         *)
(* feasibility, each applied once to an answer drawn from its set.          *)

InitTools ==
    /\ IdleRun
    /\ serp_api_key = FALSE
    /\ tool_call = NoToolCall
    /\ IdleRequests
    /\ IdleSingletons
    /\ IdleStream

ClassifyCall ==
    /\ tool_call.tool = "none"
    /\ \E llm \in ClassifierLLM :
        tool_call' = [tool_call EXCEPT !.tool = "classify_query",
                                       !.classifier_llm = llm,
                                       !.classification = classify_query(llm)]
    /\ UNCHANGED <<runVars, requestVars, singletonVars, streamVars>>

CheckCall ==
    /\ tool_call.tool = "none"
    /\ \E llm \in CheckerAnswers :
        tool_call' = [tool_call EXCEPT !.tool = "check_recipe_feasibility",
                                       !.checker_llm = llm,
                                       !.verdict = check_recipe_feasibility(llm)]
    /\ UNCHANGED <<runVars, requestVars, singletonVars, streamVars>>

NextTools ==
    \/ ClassifyCall
    \/ CheckCall

SpecTools == InitTools /\ [][NextTools]_vars

----------------------------------------------------------------------------
(* Concurrent requests on the one RecipeGraph instance *)

InitRequests ==
    /\ IdleRun
    /\ serp_api_key \in BOOLEAN
    /\ IdleTools
    /\ requests \in [Requests -> { NewRequest(m) : m \in RequestMessages }]
    /\ available_cookware = AVAILABLE_COOKWARE
    /\ IdleSingletons
    /\ IdleStream

\* request r enters run()
RequestStart(r) ==
    /\ requests[r].pc = "start"
    /\ requests' = start_request(requests, r)
    /\ UNCHANGED <<runVars, toolVars, available_cookware, singletonVars, streamVars>>

\* the graph executes the next node of request r
RequestStep(r) ==
    /\ requests[r].pc \in Nodes
    /\ \E in \in draw(requests[r].pc, requests[r].inputs) :
        requests' = step_request(requests, r, in, serp_api_key)
    /\ UNCHANGED <<runVars, toolVars, available_cookware, singletonVars, streamVars>>

\* run() of request r returns its payload
RequestReturn(r) ==
    /\ requests[r].pc \in {"END", "raised"}
    /\ requests' = [requests EXCEPT
            ![r].payload = IF requests[r].pc = "raised" THEN run_fallback
                           ELSE run_result(requests[r].state),
            ![r].pc = "returned"]
    /\ UNCHANGED <<runVars, toolVars, available_cookware, singletonVars, streamVars>>

NextRequests ==
    \E r \in Requests :
        \/ RequestStart(r)
        \/ RequestStep(r)
        \/ RequestReturn(r)

SpecRequests == InitRequests /\ [][NextRequests]_vars

----------------------------------------------------------------------------
(* Threads making first calls of the get_* functions.  The functions take   *)
(* no lock, so a thread can be preempted between any two of its steps.      *)

InitSingletons ==
    /\ IdleRun
    /\ serp_api_key = FALSE
    /\ IdleTools
    /\ IdleRequests
    /\ singletons = NoSingletons
    /\ IdleStream

\* thread c calls getter g
GetterCall(c, g) ==
    /\ singletons.callers[c].pc = "idle"
    /\ singletons' = [singletons EXCEPT !.callers[c].pc = "test",
                                        !.callers[c].getter = g]
    /\ UNCHANGED <<runVars, toolVars, requestVars, streamVars>>

\* `if _x is None:`
GetterTest(c) ==
    /\ singletons.callers[c].pc = "test"
    /\ singletons' = [singletons EXCEPT !.callers[c].pc =
            test_global(singletons.global[singletons.callers[c].getter])]
    /\ UNCHANGED <<runVars, toolVars, requestVars, streamVars>>

\* the right-hand side of `_x = X()`: the constructor runs
GetterConstruct(c) ==
    /\ singletons.callers[c].pc = "construct"
    /\ LET g == singletons.callers[c].getter
       IN  singletons' = [singletons EXCEPT
                !.constructed[g] = @ + 1,
                !.callers[c].instance = singletons.constructed[g] + 1,
                !.callers[c].pc = "assign"]
    /\ UNCHANGED <<runVars, toolVars, requestVars, streamVars>>

\* the assignment of `_x = X()`
GetterAssign(c) ==
    /\ singletons.callers[c].pc = "assign"
    /\ singletons' = [singletons EXCEPT
            !.global[singletons.callers[c].getter] = singletons.callers[c].instance,
            !.callers[c].pc = "return"]
    /\ UNCHANGED <<runVars, toolVars, requestVars, streamVars>>

\* `return _x`
GetterReturn(c) ==
    /\ singletons.callers[c].pc = "return"
    /\ singletons' = [singletons EXCEPT
            !.callers[c].got = singletons.global[singletons.callers[c].getter],
            !.callers[c].pc = "done"]
    /\ UNCHANGED <<runVars, toolVars, requestVars, streamVars>>

NextSingletons ==
    \E c \in Callers :
        \/ \E g \in Getters : GetterCall(c, g)
        \/ GetterTest(c)
        \/ GetterConstruct(c)
        \/ GetterAssign(c)
        \/ GetterReturn(c)

SpecSingletons == InitSingletons /\ [][NextSingletons]_vars

----------------------------------------------------------------------------
(* One request through /api/chat/stream: generate_stream sends its first    *)
(* status, gets the graph, sends the second status, calls run() (the node   *)
(* actions above) and then sends the remaining events one at a time.        *)

InitStream ==
    /\ \E m \in StreamMessages : state = initial_state(m)
    /\ pc = "stream_open"
    /\ trace = <<>>
    /\ payload = NoPayload
    /\ http_status = 0
    /\ serp_api_key \in BOOLEAN
    /\ prompt = NoPrompt
    /\ recipe_content = NoRecipeContent
    /\ classifier_llm = NoClassifierLLM
    /\ serp_calls = 0
    /\ IdleTools
    /\ IdleRequests
    /\ IdleSingletons
    /\ events = <<>>

\* line 85: the first status event
StreamOpen ==
    /\ pc = "stream_open"
    /\ events' = Append(events, opening_events[1])
    /\ pc' = "stream_graph"
    /\ UNCHANGED <<state, trace, payload, http_status, serp_api_key, prompt, recipe_content,
                   classifier_llm, serp_calls, toolVars, requestVars, singletonVars>>

\* lines 88-96: get_recipe_graph() returned; the second status event is
\* sent and run() is called
StreamGraph ==
    /\ pc = "stream_graph"
    /\ events' = Append(events, opening_events[2])
    /\ pc' = "classify_query"
    /\ UNCHANGED <<state, trace, payload, http_status, serp_api_key, prompt, recipe_content,
                   classifier_llm, serp_calls, toolVars, requestVars, singletonVars>>

\* lines 146-152: get_recipe_graph() raised (the RecipeGraph could not be
\* constructed); the except branch sends the error event
StreamError ==
    /\ pc = "stream_graph"
    /\ events' = Append(events, Event("error", "Internal server error", 0))
    /\ pc' = "closed"
    /\ UNCHANGED <<state, trace, payload, http_status, serp_api_key, prompt, recipe_content,
                   classifier_llm, serp_calls, toolVars, requestVars, singletonVars>>

\* lines 98-142: the next event after run() returned; the complete event
\* is the last one
StreamYield ==
    /\ pc = "returned"
    /\ LET rest == stream_events(payload)
           i == Len(events) - Len(opening_events) + 1
       IN  /\ events' = Append(events, rest[i])
           /\ pc' = IF i = Len(rest) THEN "closed" ELSE "returned"
    /\ UNCHANGED <<state, trace, payload, http_status, serp_api_key, prompt, recipe_content,
                   classifier_llm, serp_calls, toolVars, requestVars, singletonVars>>

NextStream ==
    \/ StreamOpen
    \/ StreamGraph
    \/ StreamError
    \/ ClassifyQuery
    \/ HandleNonCooking
    \/ DecideTools
    \/ WebSearch
    \/ CookwareCheck
    \/ GenerateResponse
    \/ RunReturn
    \/ RunExcept
    \/ StreamYield

SpecStream == InitStream /\ [][NextStream]_vars

----------------------------------------------------------------------------
(* Properties *)

\* run() has returned its payload
Done == pc \in {"returned", "replied"}

\* run() returned the whole-workflow fallback
FailedRun == "error" \in payload.debug_info.keys

\* run() returned the payload of a graph that reached END
Completed == Done /\ ~FailedRun

\* the message as the routing code reads it
Msg == Lower(state.user_message)

Executed(node) == \E i \in 1..Len(trace) : trace[i] = node

ToolDecisions == state.debug_info.tool_decisions

\* C1: when the classifier reports is_cooking_related = false, none of
\* web_search, cookware_check and generate_response executes, and the payload
\* run() returns has no tools and the fixed redirect message as its response.
C1_NonCookingRedirect ==
    (state.classification_result.is_dict
     /\ state.classification_result.is_cooking_related = JFalse)
    => /\ ~Executed("web_search")
       /\ ~Executed("cookware_check")
       /\ ~Executed("generate_response")
       /\ Done => /\ payload.tools_used = <<>>
                  /\ payload.response = REDIRECT_MESSAGE

C1_Witness ==
    /\ Done
    /\ state.classification_result.is_cooking_related = JFalse
    /\ trace = <<"classify_query", "handle_non_cooking">>
    /\ payload.response = REDIRECT_MESSAGE

\* C2: a cooking-related message that contains "recipe for" or "how to make"
\* and no exclusion phrase ends, when the run completes, with web_search and
\* then cookware_check in tools_used.
C2_RecipeRequestUsesBothTools ==
    (/\ Completed
     /\ Truthy(state.is_cooking_related)
     /\ Contains(Msg, <<"recipe", "for">>) \/ Contains(Msg, <<"how", "to", "make">>)
     /\ ~AnyIn(skip_cookware_keywords, Msg))
    => \E i, j \in 1..Len(payload.tools_used) :
          /\ i < j
          /\ payload.tools_used[i] = "web_search"
          /\ payload.tools_used[j] = "cookware_check"

C2_Witness ==
    /\ Completed
    /\ Contains(Msg, <<"how", "to", "make">>)
    /\ ~AnyIn(skip_cookware_keywords, Msg)
    /\ payload.tools_used = <<"web_search", "cookware_check">>

\* C3 as stated: for a cooking-related message with "what is" or "define",
\* needs_cookware_check is false, and without a search keyword needs_web_search
\* is forced to true and the run ends with tools_used = ["web_search"].
C3_Original ==
    (Executed("decide_tools")
     /\ (Contains(Msg, <<"what", "is">>) \/ Contains(Msg, <<"define">>)))
    => /\ ~ToolDecisions.needs_cookware_check
       /\ ~AnyIn(web_search_keywords, Msg)
          => /\ ToolDecisions.needs_web_search
             /\ Completed => payload.tools_used = <<"web_search">>

\* C3 (amended): for a cooking-related message with "what is" or "define",
\* needs_cookware_check is false; without a search keyword needs_web_search
\* stays false, neither web_search nor cookware_check executes and the run
\* ends with tools_used = [].
C3_InformationalSkipsTools ==
    (Executed("decide_tools")
     /\ (Contains(Msg, <<"what", "is">>) \/ Contains(Msg, <<"define">>)))
    => /\ "tool_decisions" \in state.debug_info.keys
       /\ ~ToolDecisions.needs_cookware_check
       /\ ~AnyIn(web_search_keywords, Msg)
          => /\ ~ToolDecisions.needs_web_search
             /\ ~Executed("web_search")
             /\ ~Executed("cookware_check")
             /\ Completed => payload.tools_used = <<>>

C3_Witness ==
    /\ Completed
    /\ Contains(Msg, <<"what", "is">>)
    /\ ~AnyIn(web_search_keywords, Msg)
    /\ Executed("generate_response")
    /\ payload.tools_used = <<>>

\* C4: a cooking-related message with an exclusion phrase and no search
\* keyword gets needs_web_search = needs_cookware_check = false, the label
\* "neither", the path classify_query, decide_tools, generate_response, and
\* ends with tools_used = [] and a prompt without context blocks.
C4_NeitherPath ==
    (/\ Executed("decide_tools")
     /\ AnyIn(skip_cookware_keywords, Msg)
     /\ ~AnyIn(web_search_keywords, Msg))
    => /\ "tool_decisions" \in state.debug_info.keys
       /\ ~ToolDecisions.needs_web_search
       /\ ~ToolDecisions.needs_cookware_check
       /\ which_tools_to_use(state) = "neither"
       /\ Len(trace) = 2 => pc = "generate_response"
       /\ Len(trace) > 2 => trace = <<"classify_query", "decide_tools", "generate_response">>
       /\ Done => /\ payload.tools_used = <<>>
                  /\ prompt.sent
                  /\ prompt.context_parts = <<>>

C4_Witness ==
    /\ Done
    /\ AnyIn(skip_cookware_keywords, Msg)
    /\ ~AnyIn(web_search_keywords, Msg)
    /\ trace = <<"classify_query", "decide_tools", "generate_response">>
    /\ prompt.sent
    /\ prompt.context_parts = <<>>

\* C5: when a node raised, run() returns (it does not raise) the fallback
\* payload: the generic apology, is_cooking_related false, no tools, no
\* cookware verdict and a debug_info holding only the error, whatever the
\* nodes before had recorded.
C5_RunCatchesFailure ==
    [][pc = "raised"
       => /\ pc' = "returned"
          /\ payload'.response = RUN_APOLOGY
          /\ payload'.is_cooking_related = JFalse
          /\ payload'.tools_used = <<>>
          /\ payload'.cookware_check.is_none
          /\ payload'.debug_info.keys = {"error"}]_vars

C5_Witness ==
    /\ pc = "returned"
    /\ FailedRun
    /\ state.tools_used = <<"web_search">>
    /\ Truthy(state.is_cooking_related)
    /\ payload.tools_used = <<>>

\* C6: the /api/chat endpoint answers every request with status 200.
C6_NeverHttp500 == pc = "replied" => http_status = 200

IsTool(node) == node \in {"web_search", "cookware_check"}

\* the nodes that ran to their end: a node that raised is the last of trace
CompletedNodes ==
    IF pc = "raised" \/ (Done /\ FailedRun) THEN SubSeq(trace, 1, Len(trace) - 1) ELSE trace

C7_ToolsUsedShape ==
    /\ \A i \in 1..Len(state.tools_used) : IsTool(state.tools_used[i])
    /\ \A i, j \in 1..Len(state.tools_used) :
          state.tools_used[i] = state.tools_used[j] => i = j
    /\ state.tools_used = SelectSeq(CompletedNodes, IsTool)

C7_AppendOnly ==
    \/ state'.tools_used = state.tools_used
    \/ \E tool \in {"web_search", "cookware_check"} :
          state'.tools_used = Append(state.tools_used, tool)

\* C7: tools_used is always a sequence of "web_search" and "cookware_check"
\* without repetition, in the order the two nodes executed, and every step
\* leaves it unchanged or appends one name to it.
C7_ToolsUsedAppendOnly == []C7_ToolsUsedShape /\ [][C7_AppendOnly]_vars

C7_Witness ==
    /\ state.tools_used = <<"web_search", "cookware_check">>
    /\ trace = <<"classify_query", "decide_tools", "web_search", "cookware_check">>

\* C8: final_response is non-empty exactly when handle_non_cooking or
\* generate_response has executed.
C8_FinalResponseIffTerminal ==
    (state.final_response # "")
    <=> (Executed("handle_non_cooking") \/ Executed("generate_response"))

InUnitRange(j) ==
    j.t = "absent" \/ (j.t = "num" /\ 0 <= j.v /\ j.v <= 10)

\* C9: in every payload run() returns, the confidence of the classification
\* and of the cookware verdict, when present, is a number in [0, 1].
C9_ConfidenceInRange ==
    Done => /\ InUnitRange(payload.debug_info.classification.confidence)
            /\ InUnitRange(payload.cookware_check.dict.confidence)

AllowedPaths ==
    { <<"classify_query", "handle_non_cooking">>,
      <<"classify_query", "decide_tools", "generate_response">>,
      <<"classify_query", "decide_tools", "web_search", "generate_response">>,
      <<"classify_query", "decide_tools", "web_search", "cookware_check", "generate_response">>,
      <<"classify_query", "decide_tools", "cookware_check", "generate_response">> }

IsPrefix(s, t) == Len(s) <= Len(t) /\ SubSeq(t, 1, Len(s)) = s

\* the nodes executed so far, followed by the node about to execute
PathSoFar == IF pc \in Nodes THEN Append(trace, pc) ELSE trace

\* C10: a request follows one path from classify_query: no node executes
\* twice, a node whose incoming edge is taken executes next, and a graph that
\* reaches END has executed one of the five listed sequences.
C10_OnePath ==
    /\ \A i, j \in 1..Len(trace) : trace[i] = trace[j] => i = j
    /\ \E path \in AllowedPaths : IsPrefix(PathSoFar, path)
    /\ pc \in Nodes => ENABLED Next
    /\ pc = "END" \/ Completed => trace \in AllowedPaths

C10_Witness ==
    /\ pc = "replied"
    /\ trace = <<"classify_query", "decide_tools", "web_search", "cookware_check",
                 "generate_response">>

\* C12: in every payload run returns, cookware_check is null or the verdict
\* the cookware_check step produced, and it is null in every run in which
\* the cookware_check step did not execute
C12_CookwareCheckNullUnlessRun ==
    Done =>
        /\ ~payload.cookware_check.is_none =>
                /\ Executed("cookware_check")
                /\ payload.cookware_check.dict = state.cookware_check_result
        /\ ~Executed("cookware_check") => payload.cookware_check.is_none

\* the search step ran and its result says success = false
SearchFailed ==
    Executed("web_search") /\ state.web_search_results.success = JFalse

\* the node the graph entered, or is about to enter, after web_search
AfterSearch ==
    LET i == CHOOSE k \in 1..Len(trace) : trace[k] = "web_search"
    IN  IF i < Len(trace) THEN trace[i + 1] ELSE pc

\* C13: when the search returns success = false (without a key no request is
\* sent to the SERP API), the run does not fail, web_search is still the
\* first entry of tools_used, the node after the search is chosen from the
\* message as after a successful search, and a cookware check that runs is
\* given the raw user message
C13_FailedSearchIsNotFatal ==
    SearchFailed =>
        /\ serp_calls = (IF serp_api_key THEN 1 ELSE 0)
        /\ pc # "raised"
        /\ Done => ~FailedRun /\ payload.tools_used # <<>> /\ Head(payload.tools_used) = "web_search"
        /\ state.tools_used # <<>> /\ Head(state.tools_used) = "web_search"
        /\ AfterSearch = (IF AnyIn(skip_cookware_keywords, Msg)
                          THEN "generate_response" ELSE "cookware_check")
        /\ Executed("cookware_check") => recipe_content.source = "user_message"

C13_Witness ==
    /\ pc = "replied"
    /\ ~serp_api_key
    /\ SearchFailed
    /\ Executed("cookware_check")
    /\ payload.tools_used = <<"web_search", "cookware_check">>

\* the classifier's LLM call raised or answered text that is no JSON
ClassifierFailed == classifier_llm.kind \in {"raise", "not_json"}

\* the node the graph entered, or is about to enter, after classify_query
AfterClassify == IF Len(trace) > 1 THEN trace[2] ELSE pc

\* C15: when the classifier's call fails or its answer cannot be parsed as
\* JSON, the classification is is_cooking_related = true with confidence
\* 0.5, so the graph goes from classify_query to decide_tools and the
\* non-cooking reply is never produced
C15_ClassifierFailureMeansCooking ==
    (ClassifierFailed /\ Executed("classify_query")) =>
        /\ state.classification_result.is_cooking_related = JTrue
        /\ state.classification_result.confidence = JNum(5)
        /\ state.is_cooking_related = JTrue
        /\ AfterClassify = "decide_tools"
        /\ ~Executed("handle_non_cooking")
        /\ Done => payload.response # REDIRECT_MESSAGE

C15_Witness ==
    /\ classifier_llm.kind = "not_json"
    /\ pc = "replied"
    /\ Len(trace) > 1 /\ trace[2] = "decide_tools"

\* C21: the debug_info of a payload has one of two shapes.  After a run
\* that reached END it holds the classification, no error, and it holds
\* tool_decisions exactly when decide_tools executed, which is exactly when
\* the classification's is_cooking_related counted as true; after a
\* whole-workflow failure it holds only error
C21_DebugInfoShapes ==
    Done =>
        IF FailedRun
        THEN payload.debug_info.keys = {"error"}
        ELSE /\ "classification" \in payload.debug_info.keys
             /\ payload.debug_info.classification = state.classification_result
             /\ payload.debug_info.keys \subseteq {"classification", "tool_decisions"}
             /\ "tool_decisions" \in payload.debug_info.keys <=> Executed("decide_tools")
             /\ Executed("decide_tools") <=> Truthy(state.classification_result.is_cooking_related)

C21_Witness ==
    /\ Completed
    /\ payload.debug_info.keys = {"classification", "tool_decisions"}
    /\ payload.debug_info.tool_decisions.needs_web_search
    /\ ~payload.debug_info.tool_decisions.needs_cookware_check

\* C22: after web_search, should_check_cookware answers "yes" exactly when
\* the stored needs_cookware_check is true: when the flag is false the
\* re-scan of the exclusion list finds a phrase, so the last branch (no
\* flag, no phrase, "yes") is never taken
C22_RescanAgreesWithFlag ==
    Executed("web_search") =>
        /\ should_check_cookware(state) = "yes" <=> ToolDecisions.needs_cookware_check
        /\ AfterSearch = "cookware_check" <=> ToolDecisions.needs_cookware_check
        /\ ~ToolDecisions.needs_cookware_check
              => AnyIn(skip_cookware_keywords_post_search, Msg)

C22_Witness ==
    /\ Executed("web_search")
    /\ ~ToolDecisions.needs_cookware_check
    /\ should_check_cookware(state) = "no"
    /\ AfterSearch = "generate_response"
    /\ pc = "replied"

\* C23: which_tools_to_use never answers "cookware_only", so the edge from
\* decide_tools to cookware_check is never taken: cookware_check executes
\* only as the step right after web_search, and tools_used is never
\* ["cookware_check"] alone
C23_NoCookwareOnly ==
    /\ which_tools_to_use(state) # "cookware_only"
    /\ \A i \in 1..Len(trace) :
          trace[i] = "cookware_check" => i > 1 /\ trace[i - 1] = "web_search"
    /\ pc = "cookware_check" => trace[Len(trace)] = "web_search"
    /\ state.tools_used # <<"cookware_check">>
    /\ Done => payload.tools_used # <<"cookware_check">>

C23_Witness ==
    /\ Completed
    /\ ~AnyIn(web_search_keywords, Msg)
    /\ ToolDecisions.needs_cookware_check
    /\ which_tools_to_use(state) = "both"
    /\ trace = <<"classify_query", "decide_tools", "web_search", "cookware_check", "generate_response">>
    /\ payload.tools_used = <<"web_search", "cookware_check">>

\* C24: for every message classified cooking-related that holds no
\* informational-exclusion phrase, with or without a search trigger,
\* decide_tools records needs_web_search and needs_cookware_check both true,
\* and a run with no unhandled failure ends with
\* tools_used = ["web_search", "cookware_check"]
C24_DefaultRunsBothTools ==
    (Executed("decide_tools") /\ ~AnyIn(skip_cookware_keywords, Msg))
    => /\ ToolDecisions.needs_web_search
       /\ ToolDecisions.needs_cookware_check
       /\ Completed => /\ state.tools_used = <<"web_search", "cookware_check">>
                       /\ payload.tools_used = <<"web_search", "cookware_check">>

C24_Witness ==
    /\ Completed
    /\ Executed("decide_tools")
    /\ AnyIn(web_search_keywords, Msg)
    /\ ~AnyIn(skip_cookware_keywords, Msg)
    /\ payload.tools_used = <<"web_search", "cookware_check">>


\* C25: for a message classified cooking-related that holds both a search
\* trigger and an informational-exclusion phrase, which_tools_to_use answers
\* "web_search", web_search runs, should_check_cookware answers "no", and a
\* run with no unhandled failure ends with tools_used = ["web_search"] and
\* no cookware verdict computed
C25_SearchOnly ==
    (/\ Executed("decide_tools")
     /\ AnyIn(web_search_keywords, Msg)
     /\ AnyIn(skip_cookware_keywords, Msg))
    => /\ which_tools_to_use(state) = "web_search"
       /\ should_check_cookware(state) = "no"
       /\ ~Executed("cookware_check")
       /\ pc # "cookware_check"
       /\ state.cookware_check_result = EmptyVerdict
       /\ Done => /\ Completed
                  /\ trace = <<"classify_query", "decide_tools", "web_search", "generate_response">>
                  /\ payload.tools_used = <<"web_search">>

C25_Witness ==
    /\ Completed
    /\ Executed("decide_tools")
    /\ AnyIn(web_search_keywords, Msg)
    /\ AnyIn(skip_cookware_keywords, Msg)
    /\ Executed("web_search")
    /\ payload.tools_used = <<"web_search">>

\* the context blocks of the prompt generate_response sent
ContextBlocks == { prompt.context_parts[i] : i \in 1..Len(prompt.context_parts) }

\* C26: the prompt generate_response builds holds the search-digest block
\* exactly when web_search executed and returned success = true, and the
\* cookware-analysis block exactly when cookware_check executed, whatever
\* verdict object the checker returned
C26_PromptBlocks ==
    (Executed("generate_response") /\ prompt.sent)
    => /\ "web_search_results" \in ContextBlocks
            <=> (Executed("web_search") /\ state.web_search_results.success = JTrue)
       /\ "cookware_analysis" \in ContextBlocks <=> Executed("cookware_check")

\* generate_response built its prompt and the synthesis call raised
SynthesisRaised ==
    /\ Executed("generate_response")
    /\ prompt.sent
    /\ state.final_response = GENERATE_APOLOGY

\* a generate_response step that ends in the apology
ApologyStep ==
    /\ pc = "generate_response"
    /\ state'.final_response = GENERATE_APOLOGY

\* C27: when the synthesis call in generate_response raises, the step sets
\* final_response to its fixed apology and changes nothing else: the graph
\* ends normally and the payload carries the apology with the truthy
\* is_cooking_related, the tools used so far, the cookware verdict and the
\* debug_info of the state; the whole-workflow fallback is not produced
C27_SynthesisFailureFrame ==
    /\ [](pc = "generate_response" =>
            \A llm \in ResponderLLM : llm.raises =>
                generate_response_node(state, llm)
                    = [state EXCEPT !.final_response = GENERATE_APOLOGY])
    /\ [][ApologyStep =>
            /\ state' = [state EXCEPT !.final_response = GENERATE_APOLOGY]
            /\ pc' = "END"]_vars
    /\ []((Done /\ SynthesisRaised) =>
            /\ ~FailedRun
            /\ payload.response = GENERATE_APOLOGY
            /\ payload.is_cooking_related = state.is_cooking_related
            /\ Truthy(payload.is_cooking_related)
            /\ payload.tools_used = state.tools_used
            /\ payload.cookware_check = Dict(state.cookware_check_result)
            /\ payload.debug_info = state.debug_info)

C27_Witness ==
    /\ pc = "replied"
    /\ SynthesisRaised
    /\ payload.response = GENERATE_APOLOGY
    /\ payload.tools_used = <<"web_search", "cookware_check">>
    /\ payload.cookware_check = Dict(WellFormedVerdict)
    /\ payload.debug_info.keys = {"classification", "tool_decisions"}

\* the search result the cookware_check step read
Found == state.web_search_results

\* C28: the text handed to the checker is built from the title and snippet
\* of the first two search results at most, exactly when the search
\* succeeded with a non-empty result list; when the search succeeded with no
\* result, failed or did not run, the text is the raw user message
C28_CheckerInput ==
    Executed("cookware_check") =>
        IF Executed("web_search") /\ Found.success = JTrue /\ Len(Found.results) > 0
        THEN /\ recipe_content.source = "search_results"
             /\ Len(recipe_content.parts) = (IF Len(Found.results) < 2 THEN 1 ELSE 2)
             /\ \A i \in 1..Len(recipe_content.parts) :
                    recipe_content.parts[i] = Found.results[i]
        ELSE /\ recipe_content.source = "user_message"
             /\ recipe_content.parts = <<>>
             /\ ~recipe_content.raised

C28_Witness ==
    /\ Completed
    /\ Executed("cookware_check")
    /\ Found.success = JTrue
    /\ Len(Found.results) = 3
    /\ recipe_content.source = "search_results"
    /\ Len(recipe_content.parts) = 2
    /\ ~recipe_content.raised


\* the graph has stopped: it reached END or a step raised out of it
GraphStopped == pc \in {"END", "raised"}

\* once run() has returned, its payload stays; it returns from a stopped
\* graph only, with the payload of the final state or the fallback payload
C29_ReturnsOnce ==
    /\ Done => (Done' /\ payload' = payload)
    /\ (~Done /\ Done') =>
            /\ GraphStopped
            /\ payload' = (IF pc = "END" THEN run_result(state) ELSE run_fallback)

\* at most five steps execute, and the graph ends after handle_non_cooking
\* or generate_response
C29_AtMostFiveSteps ==
    /\ Len(trace) <= 5
    /\ ~GraphStopped /\ ~Done => pc \in Nodes
    /\ pc = "END" => trace[Len(trace)] \in {"handle_non_cooking", "generate_response"}
    /\ Completed => trace[Len(trace)] \in {"handle_non_cooking", "generate_response"}

\* C29: when every external call returns or raises, every run terminates:
\* the graph reaches handle_non_cooking or generate_response, or fails as a
\* whole, after at most five step executions, and run() returns exactly one
\* payload
C29_RunTerminates ==
    /\ <>Done
    /\ []C29_AtMostFiveSteps
    /\ [][C29_ReturnsOnce]_vars

C29_Witness ==
    /\ Done
    /\ Len(trace) = 5
    /\ trace[5] = "generate_response"
    /\ payload = run_result(state)

----------------------------------------------------------------------------
(* Properties of the direct tool calls (SpecTools) *)

\* the classifier's answer is text that is no JSON, or a JSON object lacking
\* a field of the format its prompt asks for
ClassifierMalformed(llm) ==
    \/ llm.kind = "not_json"
    \/ llm.kind = "json_object"
       /\ (llm.is_cooking_related.t = "absent" \/ llm.confidence.t = "absent")

\* the checker's answer is text that is no JSON, or a JSON object lacking
\* one of the seven required fields
CheckerMalformed(llm) ==
    /\ llm.kind = "text"
    /\ \/ llm.direct = "not_json"
       \/ llm.direct = "object" /\ (\E f \in required_fields : llm.object[f].t = "absent")

\* the verdict has the shape of the checker's documented fallback
FallbackShape(verdict) ==
    /\ verdict.can_make = JTrue
    /\ verdict.required_items = JList(<<>>)
    /\ verdict.missing_items = JList(<<>>)
    /\ verdict.available_items = JList(AVAILABLE_COOKWARE)

\* C11: a malformed answer (no JSON, or JSON lacking required fields) makes
\* the classifier return is_cooking_related = true with confidence 0.5 and
\* the checker return can_make = true, empty required and missing lists and
\* the full inventory as available_items, never the incomplete parsed object
C11_MalformedGivesFallback ==
    /\ (tool_call.tool = "classify_query" /\ ClassifierMalformed(tool_call.classifier_llm))
        => /\ tool_call.classification.is_cooking_related = JTrue
           /\ tool_call.classification.confidence = JNum(5)
    /\ (tool_call.tool = "check_recipe_feasibility" /\ CheckerMalformed(tool_call.checker_llm))
        => FallbackShape(tool_call.verdict)

\* the parsed object has each of the seven required fields
HasAllFields(o) == \A f \in required_fields : o[f].t # "absent"

\* C14: when the checker's answer is valid JSON with all seven required
\* fields, the verdict returned is the parsed object except that an item
\* field that is no list becomes the empty list, a confidence that is no
\* number or lies outside [0, 1] becomes 0.5 and a can_make that is no
\* boolean becomes true; every in-range value is returned unchanged
C14_ExactCoercions ==
    LET llm == tool_call.checker_llm
        o == llm.object
        verdict == tool_call.verdict
    IN  (/\ tool_call.tool = "check_recipe_feasibility"
         /\ llm.kind = "text" /\ llm.direct = "object" /\ HasAllFields(o))
        =>  /\ \A f \in {"required_items", "available_items", "missing_items"} :
                  verdict[f] = (IF o[f].t = "list" THEN o[f] ELSE JList(<<>>))
            /\ verdict.confidence =
                  (IF o.confidence.t = "num" /\ 0 <= o.confidence.v /\ o.confidence.v <= 10
                   THEN o.confidence ELSE JNum(5))
            /\ verdict.can_make = (IF o.can_make.t = "bool" THEN o.can_make ELSE JTrue)
            /\ verdict.suggestions = o.suggestions
            /\ verdict.reasoning = o.reasoning

\* C16: the checker returns a verdict whatever its LLM does: the fallback
\* with confidence 0.5 when neither the whole answer nor the text between
\* its braces parses, the fallback with confidence 0.3 when the call itself
\* raises, and never the 0.3 verdict for an answer that was received nor the
\* 0.5 verdict for a call that raised
C16_FallbackConfidenceTellsCause ==
    LET llm == tool_call.checker_llm
        verdict == tool_call.verdict
    IN  tool_call.tool = "check_recipe_feasibility" =>
            /\ (llm.kind = "text" /\ llm.direct = "not_json" /\ llm.brace # "object")
                    => verdict = check_fallback(5)
            /\ llm.kind = "raise" => verdict = check_fallback(3)
            /\ verdict = check_fallback(3) => llm.kind = "raise"
            /\ verdict = check_fallback(5) => llm.kind = "text"

----------------------------------------------------------------------------
(* Properties of concurrent requests (SpecRequests) *)

\* run() of request r has returned
Returns(r) == requests[r].pc = "returned"

C18_RequestStateIsPrivate ==
    /\ available_cookware = AVAILABLE_COOKWARE
    /\ \A r \in Requests :
        Returns(r) =>
            LET q == requests[r]
                alone == graph_invoke(initial_state(q.user_message), "classify_query",
                                      q.inputs, serp_api_key)
            IN  /\ q.payload = run(q.user_message, q.inputs, serp_api_key)
                /\ q.state.tools_used = alone.state.tools_used
                /\ q.state.debug_info = alone.state.debug_info
                /\ q.state.web_search_results = alone.state.web_search_results
                /\ q.state.cookware_check_result = alone.state.cookware_check_result
                /\ q.state.final_response = alone.state.final_response

C18_Witness ==
    /\ Returns(1)
    /\ requests[1].payload.tools_used = <<"web_search", "cookware_check">>
    /\ requests[2].user_message # requests[1].user_message
    /\ requests[2].pc = "generate_response"
    /\ requests[2].state.tools_used = <<>>

----------------------------------------------------------------------------
(* Properties of the lazy singletons (SpecSingletons) *)

\* C19: however the concurrent first calls of a get_* function interleave,
\* at most one instance is ever constructed and every caller that has
\* returned received that one instance
C19_ConstructOnce ==
    /\ \A g \in Getters : singletons.constructed[g] <= 1
    /\ \A c1, c2 \in Callers :
        (/\ singletons.callers[c1].pc = "done" /\ singletons.callers[c2].pc = "done"
         /\ singletons.callers[c1].getter = singletons.callers[c2].getter)
        => singletons.callers[c1].got = singletons.callers[c2].got

----------------------------------------------------------------------------
(* Properties of the streaming endpoint (SpecStream) *)

Sent(type) == \E i \in 1..Len(events) : events[i].type = type

IsToolEvent(e) == e.type = "tool"

\* the tool events sent so far, in order
ToolEvents == SelectSeq(events, IsToolEvent)

\* C20: a tool or content event is sent only after run() has returned; the
\* tool events name the tools of tools_used in order and all come before the
\* first content event; a complete or error event is the last event of the
\* stream, there is exactly one, and a stream that sends nothing more has
\* sent it
C20_StreamOrder ==
    /\ (Sent("tool") \/ Sent("content")) => pc \in {"returned", "closed"}
    /\ \A i, j \in 1..Len(events) :
          (i < j /\ events[i].type = "content") => events[j].type # "tool"
    /\ Len(ToolEvents) <= Len(payload.tools_used)
    /\ \A i \in 1..Len(ToolEvents) : ToolEvents[i].data = payload.tools_used[i]
    /\ (Sent("content") \/ Sent("complete")) => Len(ToolEvents) = Len(payload.tools_used)
    /\ \A i \in 1..Len(events) :
          events[i].type \in {"complete", "error"} <=> (i = Len(events) /\ pc = "closed")
    /\ pc = "closed" => events # <<>>
    /\ ~(ENABLED NextStream) => pc = "closed"

C20_Witness ==
    /\ pc = "closed"
    /\ Len(ToolEvents) = 2
    /\ \E i, j \in 1..Len(events) :
          i < j /\ events[i].type = "content" /\ events[j].type = "content"
    /\ ~Sent("error")
    /\ events[Len(events)].type = "complete"

====
